---- MODULE Spec2Model ----
(***************************************************************************)
(* A model of RemoteClient (remote_client.py): the session lifecycle       *)
(* (connect / disconnect / with-block), command execution, the remote path *)
(* classifiers and the recursive directory transfer get_file / put_file.   *)
(*                                                                         *)
(* paramiko, the remote host and the local filesystem are the environment: *)
(* a remote stat, a leaf transfer or a remote mkdir may fail, a listing    *)
(* may come back in any order, a command may exit with any status.         *)
(***************************************************************************)
EXTENDS Integers, Sequences, FiniteSets, TLC

VARIABLES
    client,     \* self.client: "None", "new" (SSHClient(), never connected), "open", "closed"
    sftp,       \* self.sftp:   "None", "open", "closed"
    window,     \* "never" until a connect() succeeds, then "open" until the
                \* following disconnect(), then "closed"
    released,   \* TRUE when disconnect() has run since the last connect()
    orphans,    \* open channels no attribute of the session refers to any more
    scope,      \* the caller: "free", or a with-block: "body", "unwind" (an exception
                \* is leaving the body), then "exited" or "propagated"
    lfs,        \* the local filesystem:  path -> node
    rfs,        \* the remote filesystem: path -> node
    pc,         \* the transfer in progress: "idle", "get_file", "put_file"
    frames,     \* its recursion: a stack of [src, dst, items], innermost first
    call,       \* the operation last invoked, what it was given and what it found
    result,     \* how that operation ended: [exc, val]
    trace,      \* what that operation did to the environment, in order
    faults,     \* environment failures met by that operation
    calls,      \* operations invoked so far
    connects,   \* connect() calls so far
    cwd         \* the working directory of the file channel: <<>> (none) or <<path>>

vars == <<client, sftp, window, released, orphans, scope, lfs, rfs, pc, frames, call,
          result, trace, faults, calls, connects, cwd>>

session == <<client, sftp, window, released, orphans, connects, cwd>>
files == <<lfs, rfs>>

-----------------------------------------------------------------------------
(* Bounds of the model *)

MaxDepth == 2       \* depth of the initial trees and of the paths passed in
MaxNodes == 3       \* entries of the two initial trees together, the roots not counted
MaxCalls == 1       \* operations per run
MaxConnects == 2    \* connect() calls per run
MaxCmds == 2        \* length of a command list
MaxFaults == 1      \* environment failures per operation
MaxEnsures == 2     \* calls of the directory builders in a row

Names == {"a", "b"}

-----------------------------------------------------------------------------
(* Paths and filesystems.  A path is the sequence of its segments; a       *)
(* filesystem maps the paths that exist to [kind, data].                   *)

Root == <<>>
PathsTo(d) == UNION {[1..n -> Names] : n \in 0..d}
Node(k, d) == [kind |-> k, data |-> d]
DirNode == Node("dir", "-")

Kind(fs, p) == IF p \in DOMAIN fs THEN fs[p].kind ELSE "none"
Prefixes(p) == {SubSeq(p, 1, i) : i \in 0..Len(p)}
IsPrefix(p, q) == Len(p) <= Len(q) /\ SubSeq(q, 1, Len(p)) = p
WithEntry(fs, p, n) == [q \in DOMAIN fs \cup {p} |-> IF q = p THEN n ELSE fs[q]]
Children(fs, p) == {q \in DOMAIN fs : Len(q) = Len(p) + 1 /\ IsPrefix(p, q)}
Under(fs, p) == {q \in DOMAIN fs : IsPrefix(p, q)}

\* Every entry but the root lies in a directory.
WellFormed(fs) ==
    /\ Root \in DOMAIN fs /\ fs[Root] = DirNode
    /\ \A p \in DOMAIN fs : p # Root => Kind(fs, SubSeq(p, 1, Len(p) - 1)) = "dir"

\* The trees of entries down to depth d, of the kinds given; a file's data
\* names the side it is on.
Trees(data, d, kinds) ==
    LET Cand == PathsTo(d) \ {Root}
        Shapes == {s \in SUBSET Cand : Cardinality(s) <= MaxNodes}
        Of(s) == {[p \in s \cup {Root} |->
                      IF p = Root \/ k[p] = "dir" THEN DirNode
                      ELSE Node(k[p], IF k[p] = "file" THEN data ELSE "-")]
                  : k \in [s -> kinds]}
    IN {t \in UNION {Of(s) : s \in Shapes} : WellFormed(t)}

\* The entries of a tree, the root not counted.
Size(fs) == Cardinality(DOMAIN fs) - 1

\* The orders a listing of p can come back in.
Perms(S) == {f \in [1..Cardinality(S) -> S] : \A i, j \in 1..Cardinality(S) : f[i] = f[j] => i = j}
Listings(fs, p) == Perms({q[Len(q)] : q \in Children(fs, p)})

\* os.path.dirname, os.path.split(p)[-1], os.path.join(p, n).replace('\\', '/');
\* slash says that the string ends with '/'.  The root has the basename '',
\* and joining '' to a directory names that directory.
dirname(p, slash) == IF slash \/ p = Root THEN p ELSE SubSeq(p, 1, Len(p) - 1)
basename(p) == p[Len(p)]
join(p, n) == Append(p, n)

\* os.path.exists / isdir / isfile of a path string.
exists(fs, p, slash) == p \in DOMAIN fs /\ (slash => fs[p].kind = "dir")
\* A variant that takes any existing entry for a directory (os.path.exists).
isdir_any_entry(fs, p) == Kind(fs, p) # "none"
isdir(fs, p) == Kind(fs, p) = "dir"
isfile(fs, p, slash) == Kind(fs, p) = "file" /\ ~slash

\* os.makedirs(p, exist_ok=True), and `mkdir -p p` on the remote side: every
\* missing directory down to p is created, or the call fails on an entry in
\* the way that is no directory and creates nothing.
makedirs(fs, p) ==
    LET missing == {q \in Prefixes(p) : q \notin DOMAIN fs}
        ok == \A q \in Prefixes(p) \ missing : fs[q].kind = "dir"
    IN [ok |-> ok,
        fs |-> IF ok THEN [q \in DOMAIN fs \cup missing |-> IF q \in missing THEN DirNode ELSE fs[q]]
               ELSE fs]

-----------------------------------------------------------------------------
(* What an operation leaves behind.  An event of the trace is [e, a, b].   *)

Ev(e, a, b) == [e |-> e, a |-> a, b |-> b]
Ended(exc, val) == [exc |-> exc, val |-> val]
Returned(val) == Ended("none", val)
Raised(exc) == Ended(exc, "-")
Called(op, args) == [op |-> op, args |-> args, window |-> window, client |-> client, sftp |-> sftp,
                     lfs |-> lfs, rfs |-> rfs, cwd |-> cwd]

\* An exception in the body of a with-block leaves the block through __exit__.
AfterCall(res) == IF scope = "body" /\ res.exc # "none" THEN "unwind" ELSE scope

-----------------------------------------------------------------------------
(* The session lifecycle *)

\* What connect() can meet: the transport connects and the file channel
\* opens; the credentials are refused; the host cannot be reached; the
\* transport connects and open_sftp() fails.
ConnectOutcomes == {"ok", "AuthenticationException", "SocketError", "SftpError"}

connect_client(o) == IF o \in {"ok", "SftpError"} THEN "open" ELSE "new"
connect_sftp(o) == IF o = "ok" THEN "open" ELSE sftp

\* The channels the assignments of connect() drop while they are open.
connect_orphans(o) ==
    orphans + (IF client = "open" THEN 1 ELSE 0)
            + (IF o = "ok" /\ sftp = "open" THEN 1 ELSE 0)

\* open_sftp() returns a new SFTPClient, which has no working directory.
connect_cwd(o) == IF o = "ok" THEN <<>> ELSE cwd

connect(o) ==
    /\ client' = connect_client(o)
    /\ sftp' = connect_sftp(o)
    /\ orphans' = connect_orphans(o)
    /\ window' = (IF o = "ok" THEN "open" ELSE window)
    /\ released' = FALSE
    /\ connects' = connects + 1
    /\ cwd' = connect_cwd(o)

\* `if self.sftp:` and h.close(): closing a channel that is closed already
\* is harmless, and a fresh SSHClient has no transport to close.
\* A variant without the guard: the handle is closed whatever it is.
truthy_unguarded(h) == TRUE
truthy(h) == h # "None"
close(h) == [exc |-> IF h = "None" THEN "AttributeError" ELSE "none",
             h |-> IF h = "open" THEN "closed" ELSE h]
Untouched(h) == [exc |-> "none", h |-> h]

disconnect_sftp == IF truthy(sftp) THEN close(sftp) ELSE Untouched(sftp)
disconnect_client ==
    IF disconnect_sftp.exc # "none" THEN Untouched(client)
    ELSE IF truthy(client) THEN close(client) ELSE Untouched(client)
disconnect_exc == IF disconnect_sftp.exc # "none" THEN disconnect_sftp.exc ELSE disconnect_client.exc

disconnect ==
    /\ sftp' = disconnect_sftp.h
    /\ client' = disconnect_client.h
    /\ window' = (IF window = "open" THEN "closed" ELSE window)
    /\ released' = TRUE
    /\ UNCHANGED <<orphans, connects, cwd>>

Idle == pc = "idle" /\ scope \in {"free", "body"}

Connect ==
    /\ Idle /\ connects < MaxConnects
    /\ \E o \in ConnectOutcomes : connect(o) /\ call' = Called("connect", <<o>>)
    /\ result' = Returned("-")
    /\ trace' = <<>> /\ faults' = 0
    /\ UNCHANGED <<scope, files, pc, frames, calls>>

Disconnect ==
    /\ Idle
    /\ disconnect
    /\ call' = Called("disconnect", <<>>)
    /\ result' = Ended(disconnect_exc, "-")
    /\ scope' = AfterCall(Ended(disconnect_exc, "-"))
    /\ trace' = <<>> /\ faults' = 0
    /\ UNCHANGED <<files, pc, frames, calls>>

\* with RemoteClient(...) as rc: the block is entered through __enter__.
__enter__ ==
    /\ pc = "idle" /\ scope = "free" /\ connects < MaxConnects
    /\ \E o \in ConnectOutcomes : connect(o) /\ call' = Called("__enter__", <<o>>)
    /\ scope' = "body"
    /\ result' = Returned("-")
    /\ trace' = <<>> /\ faults' = 0
    /\ UNCHANGED <<files, pc, frames, calls>>

\* A variant that releases the session only when the body ended normally.
exit_on_success_only ==
    /\ pc = "idle" /\ scope \in {"body", "unwind"}
    /\ IF scope = "unwind" THEN UNCHANGED <<session>> ELSE disconnect
    /\ scope' = (IF scope = "unwind" THEN "propagated" ELSE "exited")
    /\ UNCHANGED <<files, pc, frames, call, result, trace, faults, calls>>

\* Leaving the block, by the end of its body or by an exception raised in
\* it, goes through __exit__; the exception then goes on to the caller.
__exit__ ==
    /\ pc = "idle" /\ scope \in {"body", "unwind"}
    /\ disconnect
    /\ scope' = (IF scope = "unwind" THEN "propagated" ELSE "exited")
    /\ UNCHANGED <<files, pc, frames, call, result, trace, faults, calls>>

-----------------------------------------------------------------------------
(* Command execution *)

\* The remote shell: what a command prints, a sequence of characters, and
\* the statuses it can exit with.
\* A command is [name, arg]: pwd, false, and the f"mkdir -p {path}" of
\* remote_makedir.
Cmd(name, arg) == [name |-> name, arg |-> arg]
Cmds == {Cmd("pwd", Root), Cmd("false", Root)}
Stdout(cmd) == IF cmd.name = "pwd" THEN <<"\n", "r", "\n">> ELSE <<>>
Stderr(cmd) == IF cmd.name = "pwd" THEN <<"e", "\n", "e">> ELSE <<"e">>

\* Running cmd on the remote host: [status, rfs, f].  pwd can fail, false
\* always does; mkdir -p succeeds when the directories can be made and the
\* server lets it, and fails for want of an operand when the path is ''.
shell(R, cmd, f) ==
    IF cmd.name = "mkdir -p"
    THEN LET m == makedirs(R, cmd.arg)
         IN {[status |-> IF m.ok THEN 0 ELSE 1, rfs |-> m.fs, f |-> f]}
            \cup (IF m.ok /\ f < MaxFaults THEN {[status |-> 1, rfs |-> R, f |-> f + 1]} ELSE {})
    ELSE {[status |-> st, rfs |-> R, f |-> f]
          : st \in IF cmd.name \in {"false", "mkdir -p ''"} THEN {1} ELSE {0, 1}}

\* str.strip() and str.split('\n') on a sequence of characters.
RECURSIVE strip(_)
strip(t) ==
    IF t = <<>> THEN t
    ELSE IF Head(t) = "\n" THEN strip(Tail(t))
    ELSE IF t[Len(t)] = "\n" THEN strip(SubSeq(t, 1, Len(t) - 1))
    ELSE t

RECURSIVE split(_)
split(t) ==
    IF \A i \in 1..Len(t) : t[i] # "\n" THEN <<t>>
    ELSE LET i == CHOOSE k \in 1..Len(t) : t[k] = "\n" /\ \A j \in 1..(k - 1) : t[j] # "\n"
         IN <<SubSeq(t, 1, i - 1)>> \o split(SubSeq(t, i + 1, Len(t)))

\* What exec_command does on self.client as it is: None has no such method,
\* and an SSHClient that is not connected, or closed, has no transport.
exec_error == IF client # "open" THEN "AttributeError" ELSE "none"

is_success(status) == status = 0

\* command(cmd) when the remote process exits with status: the process is
\* run, and (response, is_success) is returned.
command(cmd, status) ==
    LET info == IF is_success(status) THEN Stdout(cmd) ELSE Stderr(cmd)
    IN [val |-> [lines |-> split(strip(info)), success |-> is_success(status)],
        ev |-> <<Ev("exec", cmd, status)>>]

\* A variant that stops at the first command that fails.
RECURSIVE execute_commands_until_failure(_, _)
execute_commands_until_failure(cmds, statuses) ==
    IF cmds = <<>> THEN [val |-> <<>>, ev |-> <<>>]
    ELSE LET one == command(Head(cmds), Head(statuses))
             rest == IF one.val.success
                     THEN execute_commands_until_failure(Tail(cmds), Tail(statuses))
                     ELSE [val |-> <<>>, ev |-> <<>>]
         IN [val |-> <<one.val>> \o rest.val, ev |-> one.ev \o rest.ev]

\* execute_commands(cmds), [self.command(cmd) for cmd in commands], when the
\* k-th process run exits with statuses[k].
RECURSIVE execute_commands(_, _)
execute_commands(cmds, statuses) ==
    IF cmds = <<>> THEN [val |-> <<>>, ev |-> <<>>]
    ELSE LET one == command(Head(cmds), Head(statuses))
             rest == execute_commands(Tail(cmds), Tail(statuses))
         IN [val |-> <<one.val>> \o rest.val, ev |-> one.ev \o rest.ev]

CmdLists == UNION {[1..n -> Cmds] : n \in 0..MaxCmds}

StartCallWithin(limit, op, args) ==
    /\ Idle /\ calls < limit
    /\ calls' = calls + 1
    /\ call' = Called(op, args)

StartCall(op, args) == StartCallWithin(MaxCalls, op, args)

EndCall(res) ==
    /\ result' = res
    /\ scope' = AfterCall(res)
    /\ pc' = "idle" /\ frames' = <<>>

Command ==
    \E cmd \in Cmds :
        /\ StartCall("command", <<cmd>>)
        /\ IF exec_error # "none"
           THEN EndCall(Raised(exec_error)) /\ trace' = <<>>
           ELSE \E x \in shell(rfs, cmd, 0) :
                   /\ EndCall(Returned(command(cmd, x.status).val))
                   /\ trace' = command(cmd, x.status).ev
        /\ faults' = 0
        /\ UNCHANGED <<session, files>>

\* The statuses the processes of a command list can exit with.
Statuses(cmds) == {sts \in [1..Len(cmds) -> {0, 1}] :
                      \A i \in 1..Len(cmds) : sts[i] \in {x.status : x \in shell(rfs, cmds[i], 0)}}

ExecuteCommands ==
    \E cmds \in CmdLists :
        /\ StartCall("execute_commands", cmds)
        /\ IF exec_error # "none" /\ cmds # <<>>
           THEN EndCall(Raised(exec_error)) /\ trace' = <<>>
           ELSE \E sts \in Statuses(cmds) :
                   /\ EndCall(Returned(execute_commands(cmds, sts).val))
                   /\ trace' = execute_commands(cmds, sts).ev
        /\ faults' = 0
        /\ UNCHANGED <<session, files>>

-----------------------------------------------------------------------------
(* The remote path classifiers.  An outcome of a query is [exc, val, f]:   *)
(* the exception it raises ("none": it returns val) and the environment    *)
(* failures met so far.                                                    *)

Q(exc, val, f) == [exc |-> exc, val |-> val, f |-> f]

\* self.sftp.stat(path): the kind of the entry, "ENOENT" (FileNotFoundError),
\* or another error: no channel, a closed channel, a failure of the server.
stat(R, p, slash, f) ==
    IF sftp = "None" THEN {Q("AttributeError", "-", f)}
    ELSE IF sftp = "closed" THEN {Q("IOError", "-", f)}
    ELSE {Q("none", IF exists(R, p, slash) THEN R[p].kind ELSE "ENOENT", f)}
         \cup (IF f < MaxFaults THEN {Q("IOError", "-", f + 1)} ELSE {})

\* Variants: a missing path reported as existing; any entry reported as a
\* directory; no entry reported as a regular file.
exist_of_always(s) == IF s.exc # "none" THEN s ELSE Q("none", TRUE, s.f)
dir_of_any_entry(s) == Q("none", s.exc = "none" /\ s.val # "ENOENT", s.f)
file_of_never(s) == Q("none", FALSE, s.f)

exist_of(s) == IF s.exc # "none" THEN s
               ELSE Q("none", s.val # "ENOENT", s.f)
dir_of(s) == Q("none", s.exc = "none" /\ s.val = "dir", s.f)
file_of(s) == Q("none", s.exc = "none" /\ s.val = "file", s.f)

is_remote_exist(R, p, slash, f) == {exist_of(s) : s \in stat(R, p, slash, f)}
is_remote_dir(R, p, slash, f) == {dir_of(s) : s \in stat(R, p, slash, f)}
is_remote_file(R, p, slash, f) == {file_of(s) : s \in stat(R, p, slash, f)}

ArgPaths == PathsTo(MaxDepth - 1)

ClassifierCall(op, outcomes) ==
    \E p \in ArgPaths :
        /\ StartCall(op, <<p>>)
        /\ \E q \in outcomes[p] :
              /\ EndCall(Ended(q.exc, q.val))
              /\ faults' = q.f
        /\ trace' = <<>>
        /\ UNCHANGED <<session, files>>

IsRemoteExist == ClassifierCall("is_remote_exist", [p \in ArgPaths |-> is_remote_exist(rfs, p, FALSE, 0)])
IsRemoteDir == ClassifierCall("is_remote_dir", [p \in ArgPaths |-> is_remote_dir(rfs, p, FALSE, 0)])
IsRemoteFile == ClassifierCall("is_remote_file", [p \in ArgPaths |-> is_remote_file(rfs, p, FALSE, 0)])

\* remote_makedir(path): [exc, val, rfs, ev, f], val the success of mkdir -p.
\* blank: the path is the empty string.
mkdir_command(p, blank) == IF blank THEN Cmd("mkdir -p ''", Root) ELSE Cmd("mkdir -p", p)

remote_makedir_of(R, cmd, f) ==
    IF exec_error # "none"
    THEN {[exc |-> exec_error, val |-> FALSE, rfs |-> R, ev |-> <<>>, f |-> f]}
    ELSE {[exc |-> "none", val |-> command(cmd, x.status).val.success,
           rfs |-> x.rfs, ev |-> command(cmd, x.status).ev, f |-> x.f]
          : x \in shell(R, cmd, f)}

remote_makedir(R, p, f) == remote_makedir_of(R, mkdir_command(p, FALSE), f)

\* The paths given to the directory builders; '' and '/' are both written Root.
DirPaths == PathsTo(MaxDepth)
Blanks(p) == IF p = Root THEN BOOLEAN ELSE {FALSE}

RemoteMakedirWithin(limit) ==
    \E p \in DirPaths : \E blank \in Blanks(p) :
        /\ StartCallWithin(limit, "remote_makedir", <<p, blank>>)
        /\ \E m \in remote_makedir_of(rfs, mkdir_command(p, blank), 0) :
              /\ EndCall(Ended(m.exc, m.val))
              /\ rfs' = m.rfs /\ trace' = m.ev /\ faults' = m.f
        /\ UNCHANGED <<session, lfs>>

RemoteMakedir == RemoteMakedirWithin(MaxCalls)

\* self.sftp.chdir(path): paramiko stats the path and raises SFTPError, which
\* is no IOError, when it is no directory: [exc, f].
IsIOError(exc) == exc \in {"IOError", "FileNotFoundError"}

chdir(R, p, f) ==
    {IF s.exc # "none" THEN [exc |-> s.exc, f |-> s.f]
     ELSE IF s.val = "ENOENT" THEN [exc |-> "FileNotFoundError", f |-> s.f]
     ELSE IF s.val # "dir" THEN [exc |-> "SFTPError", f |-> s.f]
     ELSE [exc |-> "none", f |-> s.f]
     : s \in stat(R, p, FALSE, f)}

\* self.sftp.mkdir(name), name taken from the working directory: [exc, rfs, f].
sftp_mkdir(R, p, f) ==
    IF sftp # "open" \/ ~isdir(R, dirname(p, FALSE)) \/ p \in DOMAIN R
    THEN {[exc |-> "IOError", rfs |-> R, f |-> f]}
    ELSE {[exc |-> "none", rfs |-> WithEntry(R, p, DirNode), f |-> f]}
         \cup (IF f < MaxFaults THEN {[exc |-> "IOError", rfs |-> R, f |-> f + 1]} ELSE {})

\* remote_mkdir_p(path) with the working directory c: [exc, val, rfs, cwd,
\* ev, f], val "None" or "True" as the code returns.
P(exc, val, R, c, ev, f) == [exc |-> exc, val |-> val, rfs |-> R, cwd |-> c, ev |-> ev, f |-> f]

\* A variant that creates the directory and does not enter it.
mkdir_without_enter(up, name) ==
    LET target == IF up.cwd = <<>> THEN <<name>> ELSE join(up.cwd[1], name)
    IN {IF mk.exc # "none" THEN P(mk.exc, "None", mk.rfs, up.cwd, up.ev, mk.f)
        ELSE P("none", "True", mk.rfs, up.cwd, up.ev \o <<Ev("mkdir", target, Root)>>, mk.f)
        : mk \in sftp_mkdir(up.rfs, target, up.f)}

\* self.sftp.mkdir(basename); self.sftp.chdir(basename); return True, after
\* remote_mkdir_p(dirname) ended as up.
mkdir_and_enter(up, name) ==
    LET target == IF up.cwd = <<>> THEN <<name>> ELSE join(up.cwd[1], name)
    IN UNION {
        IF mk.exc # "none" THEN {P(mk.exc, "None", mk.rfs, up.cwd, up.ev, mk.f)}
        ELSE LET made == up.ev \o <<Ev("mkdir", target, Root)>>
             IN {IF d.exc # "none" THEN P(d.exc, "None", mk.rfs, up.cwd, made, d.f)
                 ELSE P("none", "True", mk.rfs, <<target>>, made, d.f)
                 : d \in chdir(mk.rfs, target, mk.f)}
        : mk \in sftp_mkdir(up.rfs, target, up.f)}

RECURSIVE remote_mkdir_p(_, _, _, _, _)
remote_mkdir_p(R, p, blank, c, f) ==
    IF blank THEN {P("none", "None", R, c, <<>>, f)}
    ELSE IF p = Root
    THEN {P(d.exc, "None", R, IF d.exc = "none" THEN <<Root>> ELSE c, <<>>, d.f) : d \in chdir(R, Root, f)}
    ELSE UNION {
        IF d.exc = "none" THEN {P("none", "None", R, <<p>>, <<>>, d.f)}
        ELSE IF ~IsIOError(d.exc) THEN {P(d.exc, "None", R, c, <<>>, d.f)}
        ELSE UNION {
            IF up.exc # "none" THEN {up} ELSE mkdir_and_enter(up, basename(p))
            : up \in remote_mkdir_p(R, dirname(p, FALSE), FALSE, c, d.f)}
        : d \in chdir(R, p, f)}

RemoteMkdirPWithin(limit) ==
    \E p \in DirPaths : \E blank \in Blanks(p) :
        /\ StartCallWithin(limit, "remote_mkdir_p", <<p, blank>>)
        /\ \E m \in remote_mkdir_p(rfs, p, blank, cwd, 0) :
              /\ EndCall(Ended(m.exc, m.val))
              /\ rfs' = m.rfs /\ cwd' = m.cwd /\ trace' = m.ev /\ faults' = m.f
        /\ UNCHANGED <<client, sftp, window, released, orphans, connects, lfs>>

RemoteMkdirP == RemoteMkdirPWithin(MaxCalls)

-----------------------------------------------------------------------------
(* write_file(text, remote_file_path): [exc, rfs, ev, f].  A file that     *)
(* chmod has been applied to carries its mode bits.                        *)

\* The integer handed to self.sftp.chmod.
chmod_mode == 755
ModeBits == 4096        \* the mode bits chmod sets: permissions, sticky, setgid, setuid

Texts == {"t"}
W(exc, R, ev, f) == [exc |-> exc, rfs |-> R, ev |-> ev, f |-> f]

\* self.sftp.open(path, 'w').write(text): the file is created or cut to
\* nothing, then written without buffering.
sftp_write(R, p, text, f) ==
    IF ~isdir(R, dirname(p, FALSE)) \/ Kind(R, p) \notin {"none", "file"}
    THEN {W("IOError", R, <<>>, f)}
    ELSE {W("none", WithEntry(R, p, Node("file", text)), <<Ev("write", p, text)>>, f)}
         \cup (IF f < MaxFaults
               THEN {W("IOError", R, <<>>, f + 1), W("IOError", WithEntry(R, p, Node("file", "cut")), <<>>, f + 1)}
               ELSE {})

\* self.sftp.chmod(path, mode) after the write ended as w.
sftp_chmod(w, p, mode) ==
    LET node == [kind |-> "file", data |-> w.rfs[p].data, mode |-> mode % ModeBits]
    IN {W("none", WithEntry(w.rfs, p, node), w.ev \o <<Ev("chmod", p, mode)>>, w.f)}
       \cup (IF w.f < MaxFaults THEN {W("IOError", w.rfs, w.ev, w.f + 1)} ELSE {})

write_file(R, p, text, f) ==
    UNION {
        IF e.exc # "none" THEN {W(e.exc, R, <<>>, e.f)}
        ELSE UNION {
            IF d.val THEN {W("ValueError", R, <<>>, d.f)}
            ELSE UNION {
                IF w.exc # "none" THEN {w} ELSE sftp_chmod(w, p, chmod_mode)
                : w \in sftp_write(R, p, text, d.f)}
            : d \in IF e.val THEN is_remote_dir(R, p, FALSE, e.f) ELSE {Q("none", FALSE, e.f)}}
        : e \in is_remote_exist(R, p, FALSE, f)}

WriteFile ==
    \E p \in ArgPaths, text \in Texts :
        /\ StartCall("write_file", <<text, p>>)
        /\ \E w \in write_file(rfs, p, text, 0) :
              /\ EndCall(Ended(w.exc, "-"))
              /\ rfs' = w.rfs /\ trace' = w.ev /\ faults' = w.f
        /\ UNCHANGED <<session, lfs>>

-----------------------------------------------------------------------------
(* The transfers.  One invocation of get_file or put_file ends as          *)
(* [exc, lfs, rfs, ev, f, items]: it raises exc, or ("none") returns, or   *)
(* ("listed") has listed a directory and goes on with its items.           *)

X(exc, L, R, ev, f) == [exc |-> exc, lfs |-> L, rfs |-> R, ev |-> ev, f |-> f, items |-> <<>>]
Listed(x, items) == [x EXCEPT !.exc = "listed", !.items = items]

\* A variant of the download that takes the remote file away (a move).
sftp_get_moving(rp, lp, slash, L, R, ev, f) ==
    LET writable == ~slash /\ isdir(L, dirname(lp, FALSE)) /\ Kind(L, lp) \in {"none", "file"}
        cut == WithEntry(L, lp, Node("file", "cut"))
    IN IF ~writable THEN {X("IOError", L, R, ev, f)}
       ELSE IF Kind(R, rp) # "file" THEN {X("IOError", cut, R, ev, f)}
       ELSE {X("none", WithEntry(L, lp, Node("file", R[rp].data)), [q \in DOMAIN R \ {rp} |-> R[q]], ev \o <<Ev("get", rp, lp)>>, f)}
            \cup (IF f < MaxFaults
                  THEN {X("IOError", L, R, ev, f + 1), X("IOError", cut, R, ev, f + 1)}
                  ELSE {})

\* self.sftp.get(remote, local): paramiko opens the local file for writing,
\* then reads the remote file into it.  A failure on the way leaves the local
\* file as it was, or cut short.
sftp_get(rp, lp, slash, L, R, ev, f) ==
    LET writable == ~slash /\ isdir(L, dirname(lp, FALSE)) /\ Kind(L, lp) \in {"none", "file"}
        cut == WithEntry(L, lp, Node("file", "cut"))
    IN IF ~writable THEN {X("IOError", L, R, ev, f)}
       ELSE IF Kind(R, rp) # "file" THEN {X("IOError", cut, R, ev, f)}
       ELSE {X("none", WithEntry(L, lp, Node("file", R[rp].data)), R, ev \o <<Ev("get", rp, lp)>>, f)}
            \cup (IF f < MaxFaults
                  THEN {X("IOError", L, R, ev, f + 1), X("IOError", cut, R, ev, f + 1)}
                  ELSE {})

\* self.sftp.put(local, remote): paramiko opens the local file, then writes
\* the remote one.
sftp_put(lp, rp, slash, L, R, ev, f) ==
    LET writable == ~slash /\ isdir(R, dirname(rp, FALSE)) /\ Kind(R, rp) \in {"none", "file"}
        cut == WithEntry(R, rp, Node("file", "cut"))
    IN IF Kind(L, lp) # "file" \/ ~writable THEN {X("IOError", L, R, ev, f)}
       ELSE {X("none", L, WithEntry(R, rp, Node("file", L[lp].data)), ev \o <<Ev("put", lp, rp)>>, f)}
            \cup (IF f < MaxFaults
                  THEN {X("IOError", L, R, ev, f + 1), X("IOError", L, cut, ev, f + 1)}
                  ELSE {})

_get_one_file(rp, lp, slash, L, R, f) ==
    UNION {
        IF e.exc # "none" THEN {X(e.exc, L, R, <<>>, e.f)}
        ELSE IF ~e.val THEN {X("ValueError", L, R, <<>>, e.f)}
        ELSE LET parent == dirname(lp, slash)
                 made == IF exists(L, parent, FALSE) THEN <<>>
                         ELSE IF slash THEN <<Ev("makedirs", lp, Root)>>
                         ELSE <<Ev("makedirs", parent, Root)>>
                 m == IF made = <<>> THEN [ok |-> TRUE, fs |-> L] ELSE makedirs(L, made[1].a)
                 into == isdir(m.fs, lp)
                 target == IF into /\ rp # Root THEN join(lp, basename(rp)) ELSE lp
             IN IF ~m.ok THEN {X("OSError", L, R, <<>>, e.f)}
                ELSE sftp_get(rp, target, slash /\ ~into, m.fs, R, made, e.f)
        : e \in is_remote_exist(R, rp, FALSE, f)}

get_file(rp, lp, slash, L, R, f) ==
    UNION {
        IF e.exc # "none" THEN {X(e.exc, L, R, <<>>, e.f)}
        ELSE IF ~e.val THEN {X("ValueError", L, R, <<>>, e.f)}
        ELSE UNION {
            IF d.val
            THEN LET made == IF exists(L, lp, slash) THEN <<>> ELSE <<Ev("makedirs", lp, Root)>>
                     m == IF made = <<>> THEN [ok |-> TRUE, fs |-> L] ELSE makedirs(L, lp)
                 IN IF ~m.ok THEN {X("OSError", L, R, <<>>, d.f)}
                    ELSE IF isdir(m.fs, lp)
                    THEN {Listed(X("none", m.fs, R, made \o <<Ev("listdir", rp, Root)>>, d.f), items)
                          : items \in Listings(R, rp)}
                    ELSE {X("ValueError", m.fs, R, made, d.f)}
            ELSE UNION {
                IF g.val THEN _get_one_file(rp, lp, slash, L, R, g.f)
                ELSE {X("none", L, R, <<>>, g.f)}
                : g \in is_remote_file(R, rp, FALSE, d.f)}
            : d \in is_remote_dir(R, rp, FALSE, e.f)}
        : e \in is_remote_exist(R, rp, FALSE, f)}

\* A variant that makes the remote path itself a directory when its parent is
\* missing, whether it ends with '/' or not.
_put_one_file_making_target(lp, rp, slash, L, R, f) ==
    IF ~exists(L, lp, FALSE) THEN {X("ValueError", L, R, <<>>, f)}
    ELSE UNION {
        IF e.exc # "none" THEN {X(e.exc, L, R, <<>>, e.f)}
        ELSE UNION {
            IF m.exc # "none" THEN {X(m.exc, L, R, <<>>, m.f)}
            ELSE UNION {
                sftp_put(lp, IF d.val /\ lp # Root THEN join(rp, basename(lp)) ELSE rp, slash /\ ~d.val,
                         L, m.rfs, m.ev, d.f)
                : d \in is_remote_dir(m.rfs, rp, slash, m.f)}
            : m \in IF e.val THEN {[exc |-> "none", val |-> TRUE, rfs |-> R, ev |-> <<>>, f |-> e.f]}
                    ELSE remote_makedir(R, rp, e.f)}
        : e \in is_remote_exist(R, dirname(rp, slash), FALSE, f)}

_put_one_file(lp, rp, slash, L, R, f) ==
    IF ~exists(L, lp, FALSE) THEN {X("ValueError", L, R, <<>>, f)}
    ELSE UNION {
        IF e.exc # "none" THEN {X(e.exc, L, R, <<>>, e.f)}
        ELSE UNION {
            IF m.exc # "none" THEN {X(m.exc, L, R, <<>>, m.f)}
            ELSE UNION {
                sftp_put(lp, IF d.val /\ lp # Root THEN join(rp, basename(lp)) ELSE rp, slash /\ ~d.val,
                         L, m.rfs, m.ev, d.f)
                : d \in is_remote_dir(m.rfs, rp, slash, m.f)}
            : m \in IF e.val THEN {[exc |-> "none", val |-> TRUE, rfs |-> R, ev |-> <<>>, f |-> e.f]}
                    ELSE remote_makedir(R, IF slash THEN rp ELSE dirname(rp, slash), e.f)}
        : e \in is_remote_exist(R, dirname(rp, slash), FALSE, f)}

put_file(lp, rp, slash, L, R, f) ==
    IF ~exists(L, lp, FALSE) THEN {X("ValueError", L, R, <<>>, f)}
    ELSE IF isdir(L, lp)
    THEN UNION {
        IF e.exc # "none" THEN {X(e.exc, L, R, <<>>, e.f)}
        ELSE UNION {
            IF m.exc # "none" THEN {X(m.exc, L, R, <<>>, m.f)}
            ELSE UNION {
                IF d.val
                THEN {Listed(X("none", L, m.rfs, m.ev \o <<Ev("listdir", lp, Root)>>, d.f), items)
                      : items \in Listings(L, lp)}
                ELSE {X("ValueError", L, m.rfs, m.ev, d.f)}
                : d \in is_remote_dir(m.rfs, rp, slash, m.f)}
            : m \in IF e.val THEN {[exc |-> "none", val |-> TRUE, rfs |-> R, ev |-> <<>>, f |-> e.f]}
                    ELSE remote_makedir(R, rp, e.f)}
        : e \in is_remote_exist(R, rp, slash, f)}
    ELSE IF isfile(L, lp, FALSE) THEN _put_one_file(lp, rp, slash, L, R, f)
    ELSE {X("none", L, R, <<>>, f)}

\* The recursion.  A frame is a directory whose entries are being
\* transferred: [src, dst, items], items the entries still to do.  A frame
\* with no entry left returns to its caller.
RECURSIVE Return(_)
Return(fr) == IF fr # <<>> /\ Head(fr).items = <<>> THEN Return(Tail(fr)) ELSE fr

\* A variant that logs an error met inside the recursion and goes on with
\* the next entry.
Invoked_and_continued(op, src, dst, fr, tr, x) ==
    LET swallowed == x.exc \notin {"none", "listed"} /\ fr # <<>>
        after == IF x.exc = "listed"
                 THEN Return(<<[src |-> src, dst |-> dst, items |-> x.items]>> \o fr)
                 ELSE IF x.exc = "none" \/ swallowed THEN Return(fr) ELSE <<>>
    IN /\ lfs' = x.lfs /\ rfs' = x.rfs
       /\ trace' = tr \o x.ev
       /\ faults' = x.f
       /\ frames' = after
       /\ IF x.exc \notin {"none", "listed"} /\ ~swallowed
          THEN /\ result' = Raised(x.exc) /\ scope' = AfterCall(Raised(x.exc)) /\ pc' = "idle"
          ELSE IF after = <<>>
          THEN /\ result' = Returned("-") /\ scope' = scope /\ pc' = "idle"
          ELSE /\ result' = Ended("running", "-") /\ scope' = scope /\ pc' = op

\* The invocation on (src, dst), entered with the frames fr and the trace tr,
\* ends as x.
Invoked(op, src, dst, fr, tr, x) ==
    LET after == IF x.exc = "listed"
                 THEN Return(<<[src |-> src, dst |-> dst, items |-> x.items]>> \o fr)
                 ELSE IF x.exc = "none" THEN Return(fr) ELSE <<>>
    IN /\ lfs' = x.lfs /\ rfs' = x.rfs
       /\ trace' = tr \o x.ev
       /\ faults' = x.f
       /\ frames' = after
       /\ IF x.exc \notin {"none", "listed"}
          THEN /\ result' = Raised(x.exc) /\ scope' = AfterCall(Raised(x.exc)) /\ pc' = "idle"
          ELSE IF after = <<>>
          THEN /\ result' = Returned("-") /\ scope' = scope /\ pc' = "idle"
          ELSE /\ result' = Ended("running", "-") /\ scope' = scope /\ pc' = op

\* The paths a caller passes: the root is the one path that ends with '/'
\* whatever the caller writes.
SrcPaths == PathsTo(MaxDepth - 1)
DstPaths == PathsTo(MaxDepth)
Slashes(p) == IF p = Root THEN {TRUE} ELSE BOOLEAN

GetFile ==
    \E rp \in SrcPaths, lp \in DstPaths :
        \E slash \in Slashes(lp) :
            /\ StartCall("get_file", <<rp, lp, slash>>)
            /\ \E x \in get_file(rp, lp, slash, lfs, rfs, 0) :
                  Invoked("get_file", rp, lp, <<>>, <<>>, x)
            /\ UNCHANGED session

PutFile ==
    \E lp \in SrcPaths, rp \in DstPaths :
        \E slash \in Slashes(rp) :
            /\ StartCall("put_file", <<lp, rp, slash>>)
            /\ \E x \in put_file(lp, rp, slash, lfs, rfs, 0) :
                  Invoked("put_file", lp, rp, <<>>, <<>>, x)
            /\ UNCHANGED session

\* _get_one_file and _put_one_file called by themselves.
GetOneFileWithin(limit) ==
    \E rp \in SrcPaths, lp \in DstPaths :
        \E slash \in Slashes(lp) :
            /\ StartCallWithin(limit, "_get_one_file", <<rp, lp, slash>>)
            /\ \E x \in _get_one_file(rp, lp, slash, lfs, rfs, 0) :
                  Invoked("_get_one_file", rp, lp, <<>>, <<>>, x)
            /\ UNCHANGED session

PutOneFileWithin(limit, sources) ==
    \E lp \in sources, rp \in DstPaths :
        \E slash \in Slashes(rp) :
            /\ StartCallWithin(limit, "_put_one_file", <<lp, rp, slash>>)
            /\ \E x \in _put_one_file(lp, rp, slash, lfs, rfs, 0) :
                  Invoked("_put_one_file", lp, rp, <<>>, <<>>, x)
            /\ UNCHANGED session

GetOneFile == GetOneFileWithin(MaxCalls)
PutOneFile == PutOneFileWithin(MaxCalls, SrcPaths)

\* The next entry of the innermost directory: self.get_file(sub_remote_path,
\* sub_local_path), self.put_file(sub_local_path, sub_remote_path).
Descend(op) ==
    /\ pc = op
    /\ LET top == Head(frames)
           src == join(top.src, Head(top.items))
           dst == join(top.dst, Head(top.items))
           fr == <<[top EXCEPT !.items = Tail(top.items)]>> \o Tail(frames)
           outcomes == IF op = "get_file" THEN get_file(src, dst, FALSE, lfs, rfs, faults)
                       ELSE put_file(src, dst, FALSE, lfs, rfs, faults)
       IN \E x \in outcomes :
              Invoked(op, src, dst, fr, trace, x)
    /\ UNCHANGED <<session, call, calls>>

GetFileEntry == Descend("get_file")
PutFileEntry == Descend("put_file")

-----------------------------------------------------------------------------
(* The specification *)

\* RemoteClient(hostname, username, password): no channel yet.  The two
\* hosts hold a few files.
Init ==
    /\ client = "None" /\ sftp = "None"
    /\ window = "never" /\ released = FALSE /\ orphans = 0 /\ connects = 0 /\ cwd = <<>>
    /\ scope = "free"
    /\ lfs \in Trees("l", 1, {"file"}) /\ rfs \in Trees("r", 1, {"file"})
    /\ Size(lfs) + Size(rfs) < MaxNodes
    /\ pc = "idle" /\ frames = <<>>
    /\ call = Called("__init__", <<>>)
    /\ result = Returned("-")
    /\ trace = <<>> /\ faults = 0 /\ calls = 0

Operation ==
    \/ IsRemoteExist
    \/ IsRemoteDir
    \/ IsRemoteFile
    \/ Command
    \/ ExecuteCommands
    \/ RemoteMakedir
    \/ RemoteMkdirP
    \/ WriteFile
    \/ GetOneFile
    \/ PutOneFile
    \/ GetFile
    \/ PutFile
    \/ GetFileEntry
    \/ PutFileEntry

Next ==
    \/ Connect
    \/ Disconnect
    \/ __enter__
    \/ __exit__
    \/ Operation

Spec == Init /\ [][Next]_vars

\* The operations on a session that connect() has opened, over every pair of
\* trees of the bounds.
InitFiles ==
    /\ client = "open" /\ sftp = "open"
    /\ window = "open" /\ released = FALSE /\ orphans = 0 /\ connects = 1 /\ cwd = <<>>
    /\ scope = "free"
    /\ lfs \in Trees("l", MaxDepth, {"file", "dir", "other"})
    /\ rfs \in Trees("r", MaxDepth, {"file", "dir", "other"})
    /\ Size(lfs) + Size(rfs) <= MaxNodes
    /\ pc = "idle" /\ frames = <<>>
    /\ call = [Called("connect", <<"ok">>) EXCEPT !.window = "never", !.client = "None", !.sftp = "None"]
    /\ result = Returned("-")
    /\ trace = <<>> /\ faults = 0 /\ calls = 0

SpecFiles == InitFiles /\ [][Operation]_vars

\* A connected session whose caller ensures remote directories, by either
\* builder, several times in a row.
InitDirs ==
    /\ client = "open" /\ sftp = "open"
    /\ window = "open" /\ released = FALSE /\ orphans = 0 /\ connects = 1 /\ cwd = <<>>
    /\ scope = "free"
    /\ lfs \in Trees("l", 0, {"file"})
    /\ rfs \in Trees("r", MaxDepth, {"file", "dir"})
    /\ pc = "idle" /\ frames = <<>>
    /\ call = [Called("connect", <<"ok">>) EXCEPT !.window = "never", !.client = "None", !.sftp = "None"]
    /\ result = Returned("-")
    /\ trace = <<>> /\ faults = 0 /\ calls = 0

EnsureByCommand == RemoteMakedirWithin(MaxEnsures)
EnsureByWalk == RemoteMkdirPWithin(MaxEnsures)

\* A connected session whose caller fetches one remote file and pushes the
\* local copy, the file sftp.get has just written, back to a remote path.
MaxTrip == 2

InitTrip ==
    /\ client = "open" /\ sftp = "open"
    /\ window = "open" /\ released = FALSE /\ orphans = 0 /\ connects = 1 /\ cwd = <<>>
    /\ scope = "free"
    /\ lfs \in Trees("l", 1, {"file", "dir"})
    /\ rfs \in Trees("r", MaxDepth, {"file", "dir"})
    /\ Size(lfs) + Size(rfs) <= MaxNodes
    /\ pc = "idle" /\ frames = <<>>
    /\ call = [Called("connect", <<"ok">>) EXCEPT !.window = "never", !.client = "None", !.sftp = "None"]
    /\ result = Returned("-")
    /\ trace = <<>> /\ faults = 0 /\ calls = 0

LocalCopy == {trace[i].b : i \in {j \in 1..Len(trace) : trace[j].e = "get"}}

FetchOne == calls = 0 /\ GetOneFileWithin(MaxTrip)
PushCopy == call.op = "_get_one_file" /\ PutOneFileWithin(MaxTrip, LocalCopy)

NextTrip == FetchOne \/ PushCopy

SpecTrip == InitTrip /\ [][NextTrip]_vars

NextDirs == EnsureByCommand \/ EnsureByWalk

SpecDirs == InitDirs /\ [][NextDirs]_vars

-----------------------------------------------------------------------------
(* Properties of the transfers, checked under SpecFiles *)

Done(op) == call.op = op /\ pc = "idle"
Events(e) == {i \in 1..Len(trace) : trace[i].e = e}

\* The destination of the source entry q when the tree at src goes to dst.
Rebase(src, dst, q) == dst \o SubSeq(q, Len(src) + 1, Len(q))

\* C1: get_file on a remote path that does not exist changes nothing on the
\* local side, whatever is there, and raises ValueError (when the server
\* answers the stat; an IOError of the stat is raised as it is).
C1_MissingRemoteSource ==
    Done("get_file") /\ call.args[1] \notin DOMAIN call.rfs
        => /\ lfs = call.lfs
           /\ trace = <<>>
           /\ result.exc \in {"ValueError", "IOError"}
           /\ faults = 0 => result.exc = "ValueError"

C1_Witness ==
    /\ Done("get_file") /\ call.args[1] \notin DOMAIN call.rfs
    /\ result.exc = "ValueError" /\ Size(lfs) > 0
    /\ call.args[2] \notin DOMAIN lfs

\* C2: put_file of a local directory onto a remote path that exists as a
\* regular file leaves the remote side as it was, runs no mkdir and uploads
\* nothing, and raises ValueError (when the server answers the stat).
C2_DirectoryOntoRemoteFile ==
    (/\ Done("put_file")
     /\ isdir(call.lfs, call.args[1])
     /\ exists(call.rfs, call.args[2], call.args[3])
     /\ Kind(call.rfs, call.args[2]) = "file")
        => /\ rfs = call.rfs
           /\ trace = <<>>
           /\ result.exc \in {"ValueError", "IOError"}
           /\ faults = 0 => result.exc = "ValueError"

C2_Witness ==
    /\ Done("put_file")
    /\ isdir(call.lfs, call.args[1]) /\ Children(call.lfs, call.args[1]) # {}
    /\ Kind(call.rfs, call.args[2]) = "file"
    /\ result.exc = "ValueError" /\ rfs[call.args[2]].data = "r"

\* C3: get_file of a remote directory onto a local path that exists and is
\* no directory lists nothing, transfers nothing and leaves the local side
\* as it was; it raises ValueError (when the server answers the stats).
C3_DirectoryOntoLocalFile ==
    (/\ Done("get_file")
     /\ Kind(call.rfs, call.args[1]) = "dir"
     /\ Kind(call.lfs, call.args[2]) \in {"file", "other"}
     /\ ~call.args[3])
        => /\ lfs = call.lfs
           /\ trace = <<>>
           /\ faults = 0 => result.exc = "ValueError"

C3_Witness ==
    /\ Done("get_file")
    /\ Kind(call.rfs, call.args[1]) = "dir" /\ Children(call.rfs, call.args[1]) # {}
    /\ Kind(call.lfs, call.args[2]) = "file"
    /\ result.exc = "ValueError"

\* The tree at src, of regular files and directories only, went to dst, which
\* did not exist: one leaf transfer per regular file and no other, each file
\* and each directory at its place under dst.
Mirrored(leaf, from, to, src, dst) ==
    /\ Cardinality(Events(leaf)) = Cardinality({q \in Under(from, src) : from[q].kind = "file"})
    /\ \A q \in Under(from, src) :
          IF from[q].kind = "file"
          THEN /\ Cardinality({i \in Events(leaf) : trace[i].a = q}) = 1
               /\ isdir(from, src) => \E i \in Events(leaf) :
                                          trace[i].a = q /\ trace[i].b = Rebase(src, dst, q)
               /\ isdir(from, src) => Kind(to, Rebase(src, dst, q)) = "file"
                                      /\ to[Rebase(src, dst, q)].data = from[q].data
          ELSE isdir(to, Rebase(src, dst, q))

Regular(fs, src) == src \in DOMAIN fs /\ \A q \in Under(fs, src) : fs[q].kind \in {"file", "dir"}

\* C4: a get_file (put_file) of a tree of regular files and directories to a
\* destination that did not exist, when it returns and the server has
\* answered every request, has made one leaf transfer per regular file of
\* the tree and a directory for its root and each of its subdirectories,
\* in whatever order the listings came back.
Fetched(fs, dst) ==
    /\ Done("get_file") /\ result.exc = "none" /\ faults = 0
    /\ Regular(fs, call.args[1]) /\ dst \notin DOMAIN call.lfs

Pushed(fs, dst) ==
    /\ Done("put_file") /\ result.exc = "none" /\ faults = 0
    /\ Regular(fs, call.args[1]) /\ dst \notin DOMAIN call.rfs

C4_OneTransferPerFile ==
    /\ Fetched(call.rfs, call.args[2]) => Mirrored("get", call.rfs, lfs, call.args[1], call.args[2])
    /\ Pushed(call.lfs, call.args[2]) => Mirrored("put", call.lfs, rfs, call.args[1], call.args[2])

\* A tree with a file, a subdirectory and a file in it has been fetched.
C4_Witness ==
    /\ Fetched(call.rfs, call.args[2])
    /\ Cardinality(Events("get")) = 2
    /\ \E q \in Under(call.rfs, call.args[1]) : q # call.args[1] /\ call.rfs[q].kind = "dir"
                                               /\ Children(call.rfs, q) # {}

-----------------------------------------------------------------------------
(* Properties of the session, checked under Spec *)

\* C5: a with-block is left only through disconnect(): once the body has
\* ended, by its last statement or by an exception of a command or of a
\* transfer, disconnect() has run and no channel of the session is open.
C5_ScopeReleasesSession ==
    scope \in {"exited", "propagated"}
        => released /\ client # "open" /\ sftp # "open" /\ window # "open"

\* The block was left by the failure of a transfer that had already fetched
\* a file.
C5_Witness ==
    /\ scope = "propagated" /\ released
    /\ call.op = "get_file" /\ call.sftp = "open"
    /\ result.exc = "IOError" /\ Events("get") # {}

\* C6: after a connect() that failed, in whichever way, the call has
\* returned and both channels are None.
C6_FailedConnectLeavesNull ==
    call.op \in {"connect", "__enter__"} /\ call.args[1] # "ok"
        => result.exc = "none" /\ client = "None" /\ sftp = "None"

\* C7: both channels are None until a connect() has succeeded, and None
\* again once disconnect() has run.
C7_HandlesNullOutsideWindow ==
    /\ window = "never" => client = "None" /\ sftp = "None"
    /\ released => client = "None" /\ sftp = "None"

\* C8: disconnect() returns in every state of the session, and a
\* disconnect() that follows a disconnect() changes nothing.
C8_DisconnectIdempotent ==
    /\ call.op = "disconnect" => result.exc = "none"
    /\ disconnect_exc = "none"
    /\ released => disconnect_sftp.h = sftp /\ disconnect_client.h = client

\* disconnect() has been called on a session it had closed already.
C8_Witness ==
    /\ call.op = "disconnect" /\ call.client = "closed" /\ call.sftp = "closed"
    /\ result.exc = "none" /\ client = "closed" /\ sftp = "closed"

Operations == {"command", "execute_commands", "is_remote_exist", "is_remote_dir",
               "is_remote_file", "remote_makedir", "remote_mkdir_p", "write_file",
               "get_file", "put_file", "_get_one_file", "_put_one_file"}

\* C9: an operation invoked while no connect() has succeeded, or after
\* disconnect(), ends with an error.
C9_FailFastOutsideWindow ==
    call.op \in Operations /\ call.window # "open" /\ pc = "idle"
        => result.exc # "none"

\* C10: on an open session execute_commands(commands) runs the commands one
\* by one in their order and returns one (lines, success) per command, the
\* lines of the output of that command and success exactly when it exited
\* with status 0, whatever the other commands did.
C10_EveryCommandRuns ==
    call.op = "execute_commands" /\ call.client = "open"
        => /\ result.exc = "none"
           /\ Len(result.val) = Len(call.args)
           /\ Len(trace) = Len(call.args)
           /\ \A i \in 1..Len(call.args) :
                 /\ trace[i] = Ev("exec", call.args[i], trace[i].b)
                 /\ result.val[i].success = (trace[i].b = 0)
                 /\ result.val[i].lines =
                        split(strip(IF trace[i].b = 0 THEN Stdout(call.args[i]) ELSE Stderr(call.args[i])))

\* A command failed and the one after it ran and succeeded.
C10_Witness ==
    /\ call.op = "execute_commands" /\ Len(call.args) = 2
    /\ result.exc = "none"
    /\ ~result.val[1].success /\ result.val[2].success
    /\ result.val[2].lines = <<<<"r">>>>

-----------------------------------------------------------------------------
(* Properties of the classifiers and of the directory builders *)

\* C11: on a connected session is_remote_exist(path) raises nothing: it
\* returns True when the stat succeeds, and False when the stat reports
\* not-found and when it fails with any other error.
C11_ExistNeverRaises ==
    Done("is_remote_exist") /\ call.window = "open"
        => /\ result.exc = "none"
           /\ result.val = (faults = 0 /\ call.args[1] \in DOMAIN call.rfs)

\* C12: ensuring a directory none of whose ancestors below the root exists
\* leaves the path and every ancestor a directory; ensuring it again, by
\* the same builder, raises nothing, creates nothing and leaves the remote
\* tree as it was; ensuring '/' or '' leaves the remote tree as it was
\* (while the server answers every request of the call).
Builders == {"remote_makedir", "remote_mkdir_p"}
Ensuring == calls' = calls + 1 /\ call'.op \in Builders /\ faults' = 0
NothingCreated == result'.exc = "none" /\ rfs' = rfs /\ \A i \in 1..Len(trace') : trace'[i].e # "mkdir"
EnsuredBefore == call.op = call'.op /\ call.args = call'.args /\ result.exc = "none" /\ faults = 0

EnsureStep ==
    Ensuring =>
        LET p == call'.args[1]
            blank == call'.args[2]
        IN /\ (~blank /\ Prefixes(p) \cap DOMAIN rfs = {Root})
                => result'.exc = "none" /\ \A q \in Prefixes(p) : isdir(rfs', q)
           /\ (EnsuredBefore /\ Prefixes(p) \cap DOMAIN call.rfs = {Root}) => NothingCreated
           /\ (blank \/ p = Root) => NothingCreated

C12_EnsureDirectory == [][EnsureStep]_vars

\* remote_mkdir_p of a path two levels down has been called where the same
\* call had just made both levels, and has created nothing.
C12_Witness ==
    /\ calls = 2 /\ Done("remote_mkdir_p") /\ Len(call.args[1]) = 2
    /\ call.cwd = <<call.args[1]>>
    /\ result.exc = "none" /\ trace = <<>> /\ rfs = call.rfs
    /\ Cardinality(DOMAIN rfs) = 3

-----------------------------------------------------------------------------
(* Properties of write_file and of the single-file transfers *)

\* C13: after write_file(text, path) has succeeded the remote file holds
\* text and its mode bits are exactly octal 755, rwxr-xr-x; on an existing
\* directory it raises ValueError and writes nothing.
Octal(u, g, o) == u * 64 + g * 8 + o

C13_WrittenExecutable ==
    Done("write_file")
        => /\ result.exc = "none"
                => /\ Kind(rfs, call.args[2]) = "file"
                   /\ rfs[call.args[2]].data = call.args[1]
                   /\ rfs[call.args[2]].mode = Octal(7, 5, 5)
           /\ (Kind(call.rfs, call.args[2]) = "dir" /\ faults = 0)
                => result.exc = "ValueError" /\ rfs = call.rfs /\ trace = <<>>

\* C14: a remote regular file f fetched by _get_one_file and its local copy
\* pushed by _put_one_file to a remote path g that does not exist, and whose
\* parent exists or can be made (every ancestor of g that exists is a
\* directory), leave a regular file at g with the content of f, and f and
\* every other remote entry as they were (while the server answers every
\* request of the two calls).
FetchedOne == Done("_get_one_file") /\ result.exc = "none" /\ faults = 0
PushingTo(g) ==
    /\ calls' = calls + 1 /\ call'.op = "_put_one_file" /\ faults' = 0
    /\ call'.args[1] \in LocalCopy /\ call'.args[2] = g /\ ~call'.args[3]
    /\ g \notin DOMAIN rfs /\ \A q \in Prefixes(g) \cap DOMAIN rfs : isdir(rfs, q)

RoundTripStep ==
    \A g \in DstPaths :
        FetchedOne /\ PushingTo(g)
            => /\ result'.exc = "none"
               /\ Kind(rfs', g) = "file" /\ rfs'[g].data = call.rfs[call.args[1]].data
               /\ \A q \in DOMAIN rfs : rfs'[q] = rfs[q]

C14_RoundTrip == [][RoundTripStep]_vars

\* A file has come back to a path two levels down whose parent had to be made.
C14_Witness ==
    /\ calls = 2 /\ Done("_put_one_file") /\ result.exc = "none" /\ faults = 0
    /\ Len(call.args[2]) = 2 /\ dirname(call.args[2], FALSE) \notin DOMAIN call.rfs
    /\ Kind(rfs, call.args[2]) = "file" /\ rfs[call.args[2]].data = "r"
    /\ call.lfs[call.args[1]].data = "r"

-----------------------------------------------------------------------------
(* Properties of the recursion *)

\* C15: in a recursive get_file/put_file an entry of a listing is done with,
\* all its descendants included, before the next entry of that listing is
\* begun; a ValueError (not found, type mismatch) met in an entry ends the
\* whole call with that error, leaving both sides as they were at that
\* moment, what was transferred before in place and the entries not yet
\* begun untouched; a call that meets such an entry does not return normally
\* (while the server answers every request of the call).
Tracked(tr) == {i \in 1..Len(tr) : tr[i].e \in {"listdir", "get", "put"}}
Where(ev) == ev.a

DepthFirst(tr) ==
    \A i, j, k \in Tracked(tr) :
        i < j /\ j < k
            => \A c \in Prefixes(Where(tr[i])) :
                   IsPrefix(c, Where(tr[k])) => IsPrefix(c, Where(tr[j]))

InPlace(leaf, from, to) ==
    \A i \in Events(leaf) : Kind(to, trace[i].b) = "file" /\ to[trace[i].b].data = from[trace[i].a].data

Recursive == call.op \in {"get_file", "put_file"}

\* A directory entry of the source whose place at the destination, an
\* existing directory, is taken by something that is no directory.
Mismatch(from, to) ==
    /\ isdir(from, call.args[1]) /\ isdir(to, call.args[2])
    /\ \E q \in Children(from, call.args[1]) :
           from[q].kind = "dir" /\ Kind(to, Rebase(call.args[1], call.args[2], q)) \in {"file", "other"}

MismatchRaises ==
    (Recursive /\ pc = "idle" /\ faults = 0)
        => /\ (call.op = "get_file" /\ Mismatch(call.rfs, call.lfs)) => result.exc # "none"
           /\ (call.op = "put_file" /\ Mismatch(call.lfs, call.rfs)) => result.exc # "none"

PropagationStep ==
    /\ Recursive' => DepthFirst(trace')
    /\ (Recursive /\ pc # "idle" /\ result'.exc = "ValueError" /\ faults' = 0)
            => /\ pc' = "idle" /\ frames' = <<>>
               /\ files' = files /\ trace' = trace
               /\ call.op = "get_file" => InPlace("get", call.rfs, lfs')
               /\ call.op = "put_file" => InPlace("put", call.lfs, rfs')
    /\ MismatchRaises'

C15_DepthFirstFailFast == [][PropagationStep]_vars

\* get_file of a directory ended with ValueError in one entry after a file
\* of the same listing had been fetched.
C15_Witness ==
    /\ Done("get_file") /\ result.exc = "ValueError" /\ faults = 0
    /\ Events("get") # {} /\ Events("listdir") # {}
    /\ InPlace("get", call.rfs, lfs)

\* C16: put_file of a local directory raises ValueError exactly when the
\* remote destination existed at the call and was no directory; a
\* destination that was absent is made a directory before the entries are
\* pushed, and a creation that fails is not reported as a type mismatch.
C16_MismatchOnlyIfPresent ==
    (Done("put_file") /\ isdir(call.lfs, call.args[1]))
        => /\ call.args[2] \notin DOMAIN call.rfs
                => /\ result.exc # "ValueError"
                   /\ result.exc = "none" => isdir(rfs, call.args[2])
           /\ (Kind(call.rfs, call.args[2]) \in {"file", "other"} /\ faults = 0)
                => result.exc = "ValueError"

\* C17: from any session and remote tree, and for any path, remote_makedir
\* and remote_mkdir_p end in the same remote tree, report the same boolean
\* and leave the session, the working directory of the file channel
\* included, in the same state (the server answering every request).
Reported(v) == IF v THEN "True" ELSE "False"
ByCommand(p, blank) == remote_makedir_of(rfs, mkdir_command(p, blank), MaxFaults)
ByWalk(p, blank) == remote_mkdir_p(rfs, p, blank, cwd, MaxFaults)

C17_BuildersEquivalent ==
    (pc = "idle" /\ client = "open" /\ sftp = "open")
        => \A p \in DirPaths : \A blank \in Blanks(p) :
               \A m \in ByCommand(p, blank), w \in ByWalk(p, blank) :
                   /\ m.exc = w.exc
                   /\ m.rfs = w.rfs
                   /\ Reported(m.val) = w.val
                   /\ w.cwd = cwd

\* C18: a download (get_file, _get_one_file) leaves the remote side as it
\* was and an upload (put_file, _put_one_file) the local side, at every
\* moment of the call and however it ends; on the other side nothing that
\* existed goes away or changes its kind, directories stay as they were,
\* and what is new is a directory or a regular file.
Downloads == {"get_file", "_get_one_file"}
Uploads == {"put_file", "_put_one_file"}

OnlyAdded(before, now) ==
    /\ \A q \in DOMAIN before :
          /\ Kind(now, q) = before[q].kind
          /\ before[q].kind # "file" => now[q] = before[q]
    /\ \A q \in DOMAIN now \ DOMAIN before : now[q].kind \in {"file", "dir"}

C18_WritesOnlyDestination ==
    /\ call.op \in Downloads => rfs = call.rfs /\ OnlyAdded(call.lfs, lfs)
    /\ call.op \in Uploads => lfs = call.lfs /\ OnlyAdded(call.rfs, rfs)

\* An upload has overwritten a remote file and made a remote directory.
C18_Witness ==
    /\ Done("put_file") /\ result.exc = "none"
    /\ \E q \in DOMAIN call.rfs : call.rfs[q].kind = "file" /\ rfs[q].data = "l"
    /\ \E q \in DOMAIN rfs \ DOMAIN call.rfs : rfs[q].kind = "dir"

-----------------------------------------------------------------------------
(* Properties of the session and of the transfers as a whole *)

\* C19: once disconnect() has run, and until the next connect(), no channel
\* that a connect() of the session opened is open: neither the two the
\* session refers to nor one that a later connect() has replaced.
C19_NoChannelLeft ==
    released => orphans = 0 /\ client # "open" /\ sftp # "open"

\* C20: a get_file or put_file that returns normally has transferred: its
\* source was a directory whose entries were gone through, or a regular
\* file that was copied; a source that exists and is classified as neither,
\* a special file or one whose stat failed after the existence check, makes
\* the call raise.
Transferred(leaf, src) ==
    \/ \E i \in Events("listdir") : trace[i].a = src
    \/ \E i \in Events(leaf) : trace[i].a = src

C20_NoSilentSuccess ==
    /\ (Done("get_file") /\ result.exc = "none") => Transferred("get", call.args[1])
    /\ (Done("put_file") /\ result.exc = "none") => Transferred("put", call.args[1])

====
